---- MODULE Spec2Model ----
(***************************************************************************)
(* PyCycle: per-feature waveform fitting, significance gating, rhythm      *)
(* classification and result-table assembly (src/PyCycle.py).              *)
(*                                                                         *)
(* Numbers.  Floats are modelled exactly where the code's decisions depend *)
(* on them:                                                                *)
(*   - variances and weights are rationals [nan, num, den];                *)
(*   - gamma is an integer count of 1e-7 (0.03 = 300000, 0.15 = 1500000);  *)
(*   - raw p-values are integer percents (0.05 = 5), NaN is a value apart; *)
(*   - rescaled timepoints are integer micro-radians.                      *)
(* The nonlinear solver (scipy curve_fit) and the rank test (scipy         *)
(* kendalltau) are library calls: their results are nondeterministic       *)
(* choices over the outcomes the call can produce.  pandas' sort_values is *)
(* called with its default, unstable, quicksort: the order it leaves among *)
(* equal keys is a nondeterministic choice as well.                        *)
(***************************************************************************)
EXTENDS Integers, Sequences, FiniteSets, TLC

VARIABLES
    \* ---- get_pycycle ----
    df,           \* input table: [idcol, rows], rows = Seq of [id, cells]
    index,        \* df.index after the optional set_index (line 272)
    i,            \* loop variable of line 273 (1-based here)
    pvals,        \* list pvals
    osc_type,     \* list osc_type
    parameters,   \* list parameters
    waves,        \* history: best_waveform returned for each processed row
    allinf,       \* history: whether all four SSE of that row were +inf
    df_out,       \* the returned, sorted DataFrame
    pc,           \* position in get_pycycle
    \* ---- fit_best_waveform called on one row ----
    df_row,       \* the argument
    ret,          \* the locals at the return statement
    \* ---- categorize_rhythm called on one gamma ----
    gamma,
    label

vars == <<df, index, i, pvals, osc_type, parameters, waves, allinf, df_out, pc,
          df_row, ret, gamma, label>>

pipeVars  == <<df, index, i, pvals, osc_type, parameters, waves, allinf, df_out, pc>>
fitVars   == <<df_row, ret>>
classVars == <<gamma, label>>

(***************************************************************************)
(* Bounds                                                                  *)
(***************************************************************************)
MaxRows == 2          \* features per input table
MaxVal == 2           \* measurements range over 0..MaxVal
MaxSSE == 1           \* finite SSE of a converged fit ranges over 0..MaxSSE
GammaSpread == 5      \* gammas examined on each side of every threshold

(***************************************************************************)
(* Rationals and NaN                                                       *)
(***************************************************************************)
Micro == 1000000                      \* micro-units: 1e-6 = 1/Micro
PiMicro == 3141593                    \* math.pi in micro-units

\* A float x = num/den + eps * 1e-6 with small num, den, eps (the code only
\* ever adds 1e-6 to a ratio of small integers): kept as the exact pair of a
\* rational and a count of 1e-6, so that no product leaves the integer range.
\* Two such numbers are equal exactly when both parts are, since two ratios
\* with denominators below 1000 never differ by a multiple of 1e-6.
Rat(n, d) == [nan |-> FALSE, num |-> n, den |-> d, eps |-> 0]
NaNRat == [nan |-> TRUE, num |-> 0, den |-> 1, eps |-> 0]
ZeroRat == Rat(0, 1)
Eps == [nan |-> FALSE, num |-> 0, den |-> 1, eps |-> 1]

\* float equality: NaN equals nothing
RatEq(a, b) ==
    ~a.nan /\ ~b.nan /\ a.num * b.den = b.num * a.den /\ a.eps = b.eps
\* a + b (NaN propagates)
RatAdd(a, b) ==
    IF a.nan \/ b.nan THEN NaNRat
    ELSE [nan |-> FALSE, num |-> a.num * b.den + b.num * a.den,
          den |-> a.den * b.den, eps |-> a.eps + b.eps]
\* 1 / a for a plain nonzero ratio (NaN propagates)
RatInv(a) == IF a.nan THEN NaNRat ELSE Rat(a.den, a.num)
\* s * w = 1, i.e. s = 1 / w.  With s = (sn*M + sd*se) / (sd*M) and w alike
\* (M = Micro), s * w = 1 iff sn*wn*M^2 + (sn*wd*we + wn*sd*se)*M + sd*se*wd*we
\* = sd*wd*M^2; all coefficients are non-negative and below M, so the two
\* sides agree iff they agree coefficient by coefficient.
Reciprocal(s, w) ==
    /\ ~s.nan /\ ~w.nan
    /\ s.num * w.num = s.den * w.den
    /\ s.num * w.den * w.eps + w.num * s.den * s.eps = 0
    /\ s.den * s.eps * w.den * w.eps = 0

RECURSIVE SumOver(_, _)
SumOver(f, S) ==
    IF S = {} THEN 0
    ELSE LET x == CHOOSE y \in S : TRUE IN f[x] + SumOver(f, S \ {x})

(***************************************************************************)
(* calculate_variances (lines 93-106)                                      *)
(* data: a Series, here a sequence of cells [zt, rep, v] (column ZTzt_Crep)*)
(***************************************************************************)
\* line 104: pandas Series.var(ddof=1) of the cells at positions cols
SampleVar(data, cols) ==
    LET n  == Cardinality(cols)
        s1 == SumOver([c \in cols |-> data[c].v], cols)
        s2 == SumOver([c \in cols |-> data[c].v * data[c].v], cols)
    IN  IF n < 2 THEN NaNRat ELSE Rat(n * s2 - s1 * s1, n * (n - 1))

\* Python truth value of a float: only 0.0 is falsy, NaN is truthy
Truthy(x) == x.nan \/ x.num # 0

calculate_variances(data) ==
    LET zt_times == [c \in 1..Len(data) |-> data[c].zt]
        unique   == {zt_times[c] : c \in 1..Len(data)}
    IN  [zt \in unique |->
            LET zt_columns == {c \in 1..Len(data) : zt_times[c] = zt}
                zt_var     == SampleVar(data, zt_columns)
            IN  IF Truthy(zt_var) THEN zt_var ELSE ZeroRat]

(***************************************************************************)
(* fit_best_waveform (lines 109-247)                                       *)
(***************************************************************************)
\* line 117: timepoints / 24 * (2 * math.pi), in micro-radians
Rescale(zt) == (zt * 2 * PiMicro) \div 24

\* `tp in variances` / `variances[tp]`: dict lookup of the float tp among the
\* integer keys; a key matches when it is numerically equal to tp
KeysMatching(tp, variances) == {k \in DOMAIN variances : k * Micro = tp}
Lookup(tp, variances) == variances[CHOOSE k \in KeysMatching(tp, variances) : TRUE]

\* line 120, one element of the comprehension plus the added 0.000001
Weight(tp, variances) ==
    IF KeysMatching(tp, variances) # {} /\ ~RatEq(Lookup(tp, variances), ZeroRat)
    THEN RatAdd(RatInv(Lookup(tp, variances)), Eps)
    ELSE RatAdd(ZeroRat, Eps)

\* lines 133, 158, 183, 210: the sigma argument of curve_fit
Sigma(weights) == weights

Models == 1..4        \* position in sse_values (the code counts from 0)
WaveformName == <<"harmonic_oscillator", "square_waveform", "cycloid", "transient">>
Inf == MaxSSE + 1     \* np.inf: above every finite SSE

\* gammas a converged harmonic fit may return (bounds -0.5..0.5, line 124)
FitGammas == {-1500001, 0, 300000}

\* what one curve_fit call can do: raise, or converge to parameters whose
\* element [1] is p1, with a finite sum of squared residuals sse
Solved(m) ==
    [ok : {TRUE}, sse : 0..MaxSSE, p1 : IF m = 1 THEN FitGammas ELSE {0}]
Raised == [ok |-> FALSE, sse |-> 0, p1 |-> 0]
CurveFit(m) == Solved(m) \cup {Raised}
Outcomes == {<<a, b, c, d>> : a \in CurveFit(1), b \in CurveFit(2),
                            c \in CurveFit(3), d \in CurveFit(4)}

\* the except branches (lines 140-144, 165-169, 190-194, 217-221)
FallbackZeroSSE(n) ==
    [params |-> [def |-> FALSE, p1 |-> 0], covariance |-> FALSE,
     fitted_values |-> [kind |-> "zeros", len |-> n], sse |-> 0]
Fallback(n) ==
    [params |-> [def |-> FALSE, p1 |-> 0], covariance |-> FALSE,
     fitted_values |-> [kind |-> "zeros", len |-> n], sse |-> Inf]

\* the try branches (lines 128-139, 153-164, 178-189, 205-216)
Fitted(o, n) ==
    [params |-> [def |-> TRUE, p1 |-> o.p1], covariance |-> TRUE,
     fitted_values |-> [kind |-> "model", len |-> n], sse |-> o.sse]

\* line 225: np.argmin returns the first position of the minimum
ArgMinLast(s) ==
    CHOOSE k \in DOMAIN s :
        /\ \A j \in DOMAIN s : s[k] <= s[j]
        /\ \A j \in DOMAIN s : s[j] = s[k] => j <= k
ArgMin(s) ==
    CHOOSE k \in DOMAIN s :
        /\ \A j \in DOMAIN s : s[k] <= s[j]
        /\ \A j \in DOMAIN s : s[j] = s[k] => k <= j

fit_best_waveform(row, o) ==
    LET n          == Len(row)
        timepoints == [c \in 1..n |-> Rescale(row[c].zt)]
        variances  == calculate_variances(row)
        weights    == [c \in 1..n |-> Weight(timepoints[c], variances)]
        fits       == [m \in Models |-> IF o[m].ok THEN Fitted(o[m], n) ELSE Fallback(n)]
        sse_values == [m \in Models |-> fits[m].sse]
        best       == ArgMin(sse_values)
        chosen     == IF best = 1 THEN 1 ELSE IF best = 2 THEN 2
                      ELSE IF best = 3 THEN 3 ELSE 4
    IN  [called |-> TRUE,
         timepoints |-> timepoints, variances |-> variances,
         weights |-> weights, sigma |-> Sigma(weights),
         failed |-> [m \in Models |-> ~o[m].ok],
         fits |-> fits, sse_values |-> sse_values, best_fit_index |-> best,
         best_waveform |-> WaveformName[chosen],
         best_params |-> fits[chosen].params,
         best_covariance |-> fits[chosen].covariance,
         best_fitted_values |-> fits[chosen].fitted_values]

(***************************************************************************)
(* categorize_rhythm (lines 250-264); gamma in units of 1e-7               *)
(***************************************************************************)
GammaLo == 300000     \* 0.03
GammaHi == 1500000    \* 0.15

categorize_rhythm_strict(g) ==
    IF GammaHi > g /\ g > GammaLo THEN "damped"
    ELSE IF -GammaHi < g /\ g < -GammaLo THEN "forced"
    ELSE IF -GammaLo <= g /\ g <= GammaLo THEN "harmonic"
    ELSE IF g > GammaHi THEN "overexpressed" ELSE "repressed"
categorize_rhythm(g) ==
    IF GammaHi >= g /\ g >= GammaLo THEN "damped"
    ELSE IF -GammaHi <= g /\ g <= -GammaLo THEN "forced"
    ELSE IF -GammaLo <= g /\ g <= GammaLo THEN "harmonic"
    ELSE IF g > GammaHi THEN "overexpressed" ELSE "repressed"

(***************************************************************************)
(* get_pycycle (lines 267-289)                                             *)
(***************************************************************************)
NaN == -1             \* np.nan among the p-values (percents are >= 0)
NoCall == "nan"       \* np.nan in the Type column
Alpha == 5            \* 0.05, line 276
FdrAlpha == 5         \* multipletests' default alpha = 0.05
PVals == {1, 5, 9}    \* raw p-values kendalltau may return, in percent

\* line 276: `p_value < 0.05`, False for NaN
SignificantOrEqual(p) == p # NaN /\ p <= Alpha
SignificantUnlessNot(p) == ~(p # NaN /\ p >= Alpha)
Significant(p) == p # NaN /\ p < Alpha

\* line 275: scipy kendalltau(fitted_values, observed)[1]; the p-value is NaN
\* when either argument is constant
IsConstant(cells) == \A a, b \in 1..Len(cells) : cells[a].v = cells[b].v
kendalltau(fitted_values, cells) ==
    IF fitted_values.kind = "zeros" \/ IsConstant(cells)
    THEN {NaN}
    ELSE PVals \cup {NaN}

Perms(n) == {f \in [1..n -> 1..n] : \A a, b \in 1..n : f[a] = f[b] => a = b}

RECURSIVE Fact(_)
Fact(n) == IF n <= 1 THEN 1 ELSE n * Fact(n - 1)

Min(S) == CHOOSE x \in S : \A y \in S : x <= y
Max(S) == CHOOSE x \in S : \A y \in S : y <= x

\* line 287: statsmodels multipletests(pvals, method='fdr_tsbh')[1].
\* Result in units of 1 / (100 * m! * m); NaN in the input makes every result NaN.
multipletests(pv) ==
    LET m      == Len(pv)
        L      == Fact(m)
        order  == CHOOSE f \in Perms(m) : \A a, b \in 1..m : a < b => pv[f[a]] <= pv[f[b]]
        sorted == [k \in 1..m |-> pv[order[k]]]
        \* Benjamini-Hochberg: p_(j) * m / j, in units of 1 / (100 * L)
        raw    == [j \in 1..m |-> sorted[j] * m * (L \div j)]
        adj    == [k \in 1..m |-> Min({100 * L} \cup {raw[j] : j \in k..m})]
        \* first stage: number of rejections at FdrAlpha
        rej    == {k \in 1..m : sorted[k] * m <= k * FdrAlpha}
        r1     == IF rej = {} THEN 0 ELSE Max(rej)
        \* second stage: scale by (m - r1) / m unless none or all were rejected
        fact   == IF r1 = 0 \/ r1 = m THEN m ELSE m - r1
        rank   == [q \in 1..m |-> CHOOSE k \in 1..m : order[k] = q]
    IN  IF \E q \in 1..m : pv[q] = NaN
        THEN [q \in 1..m |-> NaN]
        ELSE [q \in 1..m |-> adj[rank[q]] * fact]

\* line 288: pd.DataFrame({...}); idx is the frame's own RangeIndex label
DataFrameCrossed(features, pv, cpv, types, params) ==
    [k \in 1..Len(pv) |->
        [idx |-> k - 1, Feature |-> features[k], pval |-> pv[Len(pv) + 1 - k],
         corr |-> cpv[k], Type |-> types[k], parameters |-> params[k]]]
DataFrame(features, pv, cpv, types, params) ==
    [k \in 1..Len(pv) |->
        [idx |-> k - 1, Feature |-> features[k], pval |-> pv[k],
         corr |-> cpv[k], Type |-> types[k], parameters |-> params[k]]]

\* the column of a result row named by a sort key
Column(r, by) == IF by = "p-val" THEN r.pval ELSE r.corr

\* line 289: DataFrame.sort_values(by=...) with pandas' defaults
\* (kind='quicksort', na_position='last'): the rows whose key is not NaN come
\* first in non-decreasing key order, rows with equal keys in any order
\* (quicksort is not a stable sort); the NaN rows follow in their old order.
SortValues(rows, by) ==
    LET n      == Len(rows)
        nonnan == {k \in 1..n : Column(rows[k], by) # NaN}
        cnt    == Cardinality(nonnan)
    IN  {[k \in 1..n |-> rows[f[k]]] :
            f \in {g \in Perms(n) :
                    /\ \A k \in 1..cnt : g[k] \in nonnan
                    /\ \A a, b \in 1..cnt : a < b => Column(rows[g[a]], by) <= Column(rows[g[b]], by)
                    /\ \A a, b \in (cnt + 1)..n : a < b => g[a] < g[b]}}


Ids == {"g1", "g2"}
\* the measurements of a feature, columns ZT0_C1, ZT12_C1: flat or varying
PipeRows == {<<[zt |-> 0, rep |-> 1, v |-> 1], [zt |-> 12, rep |-> 1, v |-> 1]>>,
             <<[zt |-> 0, rep |-> 1, v |-> 0], [zt |-> 12, rep |-> 1, v |-> 1]>>}

\* input tables: with an identifier column (identifiers may repeat) or without
Tables ==
    UNION {[idcol : {TRUE}, rows : [1..n -> [id : Ids, cells : PipeRows]]] : n \in 1..MaxRows}
    \cup
    UNION {[idcol : {FALSE}, rows : [1..n -> [id : {"-"}, cells : PipeRows]]] : n \in 1..MaxRows}

\* lines 271-272: a textual first cell makes the first column the index,
\* otherwise the index stays the RangeIndex 0..n-1
SetIndex ==
    /\ pc = "start"
    /\ index' = IF df.idcol
                THEN [k \in 1..Len(df.rows) |-> df.rows[k].id]
                ELSE [k \in 1..Len(df.rows) |-> k - 1]
    /\ pc' = "loop"
    /\ UNCHANGED <<df, i, pvals, osc_type, parameters, waves, allinf, df_out>>
    /\ UNCHANGED <<fitVars, classVars>>

\* line 274: what a call fit_best_waveform(row) can hand back, over all solver
\* results: the returned tuple (line 247), with the note whether every SSE
\* was +inf
Returned(r) ==
    [waveform |-> r.best_waveform, params |-> r.best_params,
     covariance |-> r.best_covariance, fitted_values |-> r.best_fitted_values,
     allinf |-> \A m \in Models : r.sse_values[m] = Inf]
Calls(row) == {Returned(fit_best_waveform(row, o)) : o \in Outcomes}

\* the same, tabulated once for the rows of the input tables
CallsOf == [row \in PipeRows |-> Calls(row)]

\* lines 273-286: one iteration of the loop over the rows
LoopBody ==
    /\ pc = "loop"
    /\ i <= Len(df.rows)
    /\ \E r \in CallsOf[df.rows[i].cells] :
        \E p_value \in kendalltau(r.fitted_values, df.rows[i].cells) :
          IF /\ Significant(p_value)
             /\ r.waveform = "harmonic_oscillator"
             /\ ~r.params.def
          THEN \* params[1] on np.nan: TypeError leaves the function
               /\ pc' = "raised"
               /\ UNCHANGED <<i, pvals, osc_type, parameters, waves, allinf>>
          ELSE LET oscillation ==
                       IF Significant(p_value)
                       THEN IF r.waveform = "harmonic_oscillator"
                            THEN categorize_rhythm(r.params.p1)
                            ELSE r.waveform
                       ELSE NoCall
               IN  /\ pvals' = Append(pvals, p_value)
                   /\ osc_type' = Append(osc_type, oscillation)
                   /\ parameters' = Append(parameters, r.params)
                   /\ waves' = Append(waves, r.waveform)
                   /\ allinf' = Append(allinf, r.allinf)
                   /\ i' = i + 1
                   /\ pc' = pc
    /\ UNCHANGED <<df, index, df_out>>
    /\ UNCHANGED <<fitVars, classVars>>

\* lines 287-289: correction, assembly and the two sorts
Finish ==
    /\ pc = "loop"
    /\ i > Len(df.rows)
    /\ LET corr_pvals == multipletests(pvals)
           frame      == DataFrame(index, pvals, corr_pvals, osc_type, parameters)
       IN  \E s1 \in SortValues(frame, "p-val") :
             \E s2 \in SortValues(s1, "corr p-val") :
               df_out' = s2
    /\ pc' = "done"
    /\ UNCHANGED <<df, index, i, pvals, osc_type, parameters, waves, allinf>>
    /\ UNCHANGED <<fitVars, classVars>>

(***************************************************************************)
(* Specifications                                                          *)
(***************************************************************************)
NoFit == [called |-> FALSE]

IdleFit == df_row = <<>> /\ ret = NoFit
IdleClass == gamma = 0 /\ label = "-"
IdlePipe ==
    /\ df = [idcol |-> FALSE, rows |-> <<>>]
    /\ index = <<>> /\ i = 1
    /\ pvals = <<>> /\ osc_type = <<>> /\ parameters = <<>>
    /\ waves = <<>> /\ allinf = <<>> /\ df_out = <<>>
    /\ pc = "idle"

\* get_pycycle on every table within the bounds
Init ==
    /\ df \in Tables
    /\ index = <<>> /\ i = 1
    /\ pvals = <<>> /\ osc_type = <<>> /\ parameters = <<>>
    /\ waves = <<>> /\ allinf = <<>> /\ df_out = <<>>
    /\ pc = "start"
    /\ IdleFit /\ IdleClass

Next == SetIndex \/ LoopBody \/ Finish

Spec == Init /\ [][Next]_vars

\* fit_best_waveform on one row
Cell(zt, rep) == [zt : {zt}, rep : {rep}, v : 0..MaxVal]
FitRows ==
    (Cell(0, 1) \X Cell(0, 2) \X Cell(4, 1) \X Cell(4, 2) \X Cell(8, 1))
    \cup (Cell(0, 1) \X Cell(4, 1) \X Cell(4, 2))

FitBestWaveform ==
    /\ ~ret.called
    /\ \E o \in Outcomes : ret' = fit_best_waveform(df_row, o)
    /\ UNCHANGED <<df_row, pipeVars, classVars>>

InitFit == df_row \in FitRows /\ ret = NoFit /\ IdlePipe /\ IdleClass
NextFit == FitBestWaveform
SpecFit == InitFit /\ [][NextFit]_vars

\* categorize_rhythm on one gamma
Thresholds == {-5000000, -GammaHi, -GammaLo, 0, GammaLo, GammaHi, 5000000}
GammaInputs ==
    {t + d : t \in Thresholds, d \in (-GammaSpread)..GammaSpread} \cup {299990, -299990}

CategorizeRhythm ==
    /\ label = "-"
    /\ label' = categorize_rhythm(gamma)
    /\ UNCHANGED <<gamma, pipeVars, fitVars>>

InitClass == gamma \in GammaInputs /\ label = "-" /\ IdlePipe /\ IdleFit
NextClass == CategorizeRhythm
SpecClass == InitClass /\ [][NextClass]_vars

(***************************************************************************)
(* Properties of get_pycycle (Spec)                                        *)
(***************************************************************************)
OutRows == {df_out[j] : j \in 1..Len(df_out)}
NotBelowAlpha(p) == p = NaN \/ p >= Alpha

\* C1: a feature whose raw p-value is >= 0.05 or NaN gets the no-call Type,
\* whichever waveform won and whatever its gamma; a label or waveform name is
\* written only when the p-value is < 0.05 (in the lists and in the result).
C1_SignificanceGating ==
    /\ \A k \in 1..Len(pvals) :
        /\ NotBelowAlpha(pvals[k]) => osc_type[k] = NoCall
        /\ osc_type[k] # NoCall => (pvals[k] # NaN /\ pvals[k] < Alpha)
    /\ \A r \in OutRows :
        /\ NotBelowAlpha(r.pval) => r.Type = NoCall
        /\ r.Type # NoCall => (r.pval # NaN /\ r.pval < Alpha)

\* a finished run in which a square-wave winner at exactly p = 0.05 and a
\* damped harmonic winner with NaN or large p were both left uncalled, next
\* to a called feature
C1_Witness ==
    /\ pc = "done"
    /\ \E r \in OutRows :
        r.pval = Alpha /\ waves[r.idx + 1] = "square_waveform" /\ r.Type = NoCall
    /\ \E r \in OutRows :
        /\ NotBelowAlpha(r.pval) /\ waves[r.idx + 1] = "harmonic_oscillator"
        /\ r.parameters.def /\ r.parameters.p1 = GammaLo /\ r.Type = NoCall

\* C2 as stated: the output has as many rows as the input, and every input
\* feature identifier appears exactly once in the Feature column, with the
\* values computed for it.
C2_Original ==
    pc = "done" =>
        /\ Len(df_out) = Len(df.rows)
        /\ \A k \in 1..Len(index) :
            /\ Cardinality({j \in 1..Len(df_out) : df_out[j].Feature = index[k]}) = 1
            /\ \E j \in 1..Len(df_out) :
                /\ df_out[j].Feature = index[k]
                /\ df_out[j].pval = pvals[k]
                /\ df_out[j].Type = osc_type[k]
                /\ df_out[j].parameters = parameters[k]

\* C2 amended: the loop appends one entry per row to each list; the output
\* has as many rows as the input; every input row appears exactly once, with
\* its own identifier, p-value, corrected p-value, category and parameters;
\* hence an identifier appears as often in Feature as it does in the input.
C2_Completeness ==
    /\ Len(pvals) = Len(osc_type) /\ Len(pvals) = Len(parameters)
    /\ pc = "loop" => Len(pvals) = i - 1
    /\ pc = "done" =>
        LET corr_pvals == multipletests(pvals) IN
        /\ Len(df_out) = Len(df.rows)
        /\ Len(pvals) = Len(df.rows)
        /\ \A k \in 1..Len(df.rows) :
            /\ Cardinality({j \in 1..Len(df_out) : df_out[j].idx = k - 1}) = 1
            /\ \A j \in 1..Len(df_out) :
                df_out[j].idx = k - 1 =>
                    /\ df_out[j].Feature = (IF df.idcol THEN df.rows[k].id ELSE k - 1)
                    /\ df_out[j].pval = pvals[k]
                    /\ df_out[j].corr = corr_pvals[k]
                    /\ df_out[j].Type = osc_type[k]
                    /\ df_out[j].parameters = parameters[k]
            /\ Cardinality({j \in 1..Len(df_out) : df_out[j].Feature = index[k]})
                 = Cardinality({j \in 1..Len(index) : index[j] = index[k]})

\* a finished run on two differently named features that the sorts reordered
C2_Witness ==
    /\ pc = "done"
    /\ Len(df_out) = 2
    /\ df.idcol
    /\ df_out[1].Feature # df_out[2].Feature
    /\ df_out[1].idx = 1
    /\ df_out[1].pval # df_out[2].pval

\* C3: the output rows are in non-decreasing order of corrected p-value, and
\* rows with equal corrected p-value are in non-decreasing raw p-value order
\* (the order left by the first sort, kept by a stable second sort).
C3_SortLaw ==
    pc = "done" =>
        \A a, b \in 1..Len(df_out) :
            (a < b /\ df_out[a].corr # NaN /\ df_out[b].corr # NaN) =>
                /\ df_out[a].corr <= df_out[b].corr
                /\ df_out[a].corr = df_out[b].corr => df_out[a].pval <= df_out[b].pval

\* C5: when all four fits of a feature raise, fit_best_waveform returns the
\* first model, harmonic_oscillator, with undefined parameters; get_pycycle
\* never raises (it never indexes the undefined parameters), keeps processing
\* the remaining features, and the feature's row carries the no-call Type.
C5_FallbackSafety ==
    /\ pc # "raised"
    /\ \A k \in 1..Len(allinf) :
        allinf[k] =>
            /\ waves[k] = "harmonic_oscillator"
            /\ ~parameters[k].def
            /\ osc_type[k] = NoCall
    /\ pc = "done" =>
        /\ Len(allinf) = Len(df.rows)
        /\ \A k \in 1..Len(allinf) :
            allinf[k] => \E r \in OutRows : r.idx = k - 1 /\ r.Type = NoCall

\* a finished run whose first feature had all four fits fail and whose
\* second feature was then fitted and called
C5_Witness ==
    /\ pc = "done"
    /\ Len(df_out) = 2
    /\ allinf[1] /\ ~allinf[2]
    /\ osc_type[2] # NoCall

(***************************************************************************)
(* Properties of categorize_rhythm (SpecClass)                             *)
(***************************************************************************)
\* C4: exactly one label per gamma: [0.03, 0.15] damped, [-0.15, -0.03]
\* forced, (-0.03, 0.03) harmonic, above 0.15 overexpressed, below -0.15
\* repressed; 0.029999 is harmonic and 0.1500001 is overexpressed.
C4_Boundaries ==
    label # "-" =>
        /\ label \in {"damped", "forced", "harmonic", "overexpressed", "repressed"}
        /\ (300000 <= gamma /\ gamma <= 1500000) <=> label = "damped"
        /\ (-1500000 <= gamma /\ gamma <= -300000) <=> label = "forced"
        /\ (-300000 < gamma /\ gamma < 300000) <=> label = "harmonic"
        /\ gamma > 1500000 <=> label = "overexpressed"
        /\ gamma < -1500000 <=> label = "repressed"
        /\ gamma = 299990 => label = "harmonic"
        /\ gamma = 1500001 => label = "overexpressed"

\* gamma exactly 0.03 has been classified, as damped
C4_Witness == gamma = 300000 /\ label = "damped"

(***************************************************************************)
(* Properties of fit_best_waveform and calculate_variances (SpecFit)       *)
(***************************************************************************)
FallbackValues(m) ==
    /\ ~ret.fits[m].params.def
    /\ ~ret.fits[m].covariance
    /\ ret.fits[m].fitted_values = [kind |-> "zeros", len |-> Len(df_row)]
    /\ ret.fits[m].sse = Inf

\* C6 as stated: a model whose fit raises gets undefined parameters and
\* covariance, a zero fitted vector of the row's length and SSE = +inf, the
\* call still returns, and that model is never the one returned as best.
C6_Original ==
    ret.called =>
        \A m \in Models :
            ret.failed[m] => (FallbackValues(m) /\ ret.best_fit_index # m)

\* C6 amended: as stated, except that the failed model loses the comparison
\* only when some model was fitted (with a finite SSE); when all four fits
\* raise, the first model, harmonic_oscillator, is returned although it failed.
C6_FailedFit ==
    ret.called =>
        /\ \A m \in Models :
            ret.failed[m] =>
                /\ FallbackValues(m)
                /\ (\E m2 \in Models : ~ret.failed[m2]) => ret.best_fit_index # m
        /\ (\A m \in Models : ret.failed[m]) =>
                (ret.best_fit_index = 1 /\ ret.best_waveform = "harmonic_oscillator")

\* the harmonic fit raised, the other three were still fitted, and the best
\* of those was returned
C6_Witness ==
    /\ ret.called
    /\ ret.failed = <<TRUE, FALSE, FALSE, FALSE>>
    /\ ret.sse_values = <<Inf, 1, 0, 1>>
    /\ ret.best_waveform = "cycloid"

\* C7: the returned waveform has the minimum SSE of the four, the first in
\* the order harmonic, square, cycloid, transient among equal minima, and the
\* returned name, parameters, covariance and fitted values are that model's.
C7_BestFit ==
    ret.called =>
        LET b == ret.best_fit_index IN
        /\ b \in Models
        /\ \A m \in Models : ret.sse_values[b] <= ret.sse_values[m]
        /\ \A m \in Models : ret.sse_values[m] = ret.sse_values[b] => b <= m
        /\ ret.best_waveform =
             <<"harmonic_oscillator", "square_waveform", "cycloid", "transient">>[b]
        /\ ret.best_params = ret.fits[b].params
        /\ ret.best_covariance = ret.fits[b].covariance
        /\ ret.best_fitted_values = ret.fits[b].fitted_values

\* harmonic fitted worst, square and cycloid tie for the minimum, transient
\* failed: square, the first of the tied, is returned
C7_Witness ==
    /\ ret.called
    /\ ret.sse_values = <<1, 0, 0, Inf>>
    /\ ret.fits[1].params.p1 = GammaLo
    /\ ret.best_waveform = "square_waveform"
    /\ ret.best_params = [def |-> TRUE, p1 |-> 0]

\* C8: every column, whatever its timepoint, has weight 1/variance + 1e-6
\* when the variance recorded for its raw timepoint is nonzero, and 1e-6
\* otherwise.
C8_Weights ==
    ret.called =>
        \A c \in 1..Len(df_row) :
            LET v == ret.variances[df_row[c].zt] IN
            ~v.nan =>
                RatEq(ret.weights[c],
                      IF v.num # 0 THEN RatAdd(RatInv(v), Eps) ELSE Eps)

\* C9: every timepoint of the row has an entry; a timepoint with fewer than
\* two replicates or with zero variance maps to 0, never to NaN; any other
\* maps to the unbiased sample variance sum((x - mean)^2) / (n - 1).
C9_Variances ==
    ret.called =>
        \A c \in 1..Len(df_row) :
            LET zt    == df_row[c].zt
                group == {d \in 1..Len(df_row) : df_row[d].zt = zt}
                n     == Cardinality(group)
                total == SumOver([d \in group |-> df_row[d].v], group)
                \* sum of (n * x - total)^2 = n^2 * sum((x - mean)^2)
                dev2  == SumOver([d \in group |->
                            (n * df_row[d].v - total) * (n * df_row[d].v - total)], group)
            IN  /\ zt \in DOMAIN ret.variances
                /\ ~ret.variances[zt].nan
                /\ (n < 2 \/ dev2 = 0) => RatEq(ret.variances[zt], ZeroRat)
                /\ (n >= 2 /\ dev2 # 0) =>
                        RatEq(ret.variances[zt], Rat(dev2, n * n * (n - 1)))

\* C10: the uncertainty (sigma) handed to each curve fit for a column is
\* 1/weight of that column.
C10_Sigma ==
    ret.called =>
        \A c \in 1..Len(df_row) :
            ~ret.weights[c].nan => Reciprocal(ret.sigma[c], ret.weights[c])

====
